---- MODULE Spec2Model ----
(***************************************************************************)
(* Model of snek (src/src/main.rs): the GameScene tick state machine       *)
(* (movement, wall and self collision, fruit, growth), the per-frame input *)
(* polling, and the scene dispatcher Game (Menu, GameScene, GameOver).     *)
(*                                                                         *)
(* One step of the model is one iteration of the loop in main: a call of   *)
(* Game::update (the active scene's update plus the scene switch and the   *)
(* reset it performs), followed by draw and next_frame, which change no    *)
(* state.  The inputs of a frame are what the active scene reads: the keys *)
(* that are down (GameScene), the pointer position and the left pointer    *)
(* button (Menu, GameOver), and the time since the previous frame.         *)
(***************************************************************************)
EXTENDS Integers, Sequences, FiniteSets

\* ------------------------------------------------------------ constants
GRID_WIDTH == 20
GRID_HEIGHT == 20
TICK_SPEED_MS == 250

\* ------------------------------------------------------------ bounds
\* Keys are down only during the first SteerTicks ticks of a game; after
\* that the snake runs straight on (and so every game ends at a wall).
SteerTicks == 5
\* The random draws of new_fruit that are explored: the cells at most
\* FruitSpan columns left of and rows above the centre of the grid.
FruitSpan == 2
\* The length of a frame that is shorter than a tick, in milliseconds.
FrameMs == 100

\* ------------------------------------------------------------ data
Directions == {"Up", "Left", "Down", "Right"}
Keys == {"W", "A", "S", "D"}

Pos(px, py) == [x |-> px, y |-> py]

Center == Pos(GRID_WIDTH \div 2, GRID_HEIGHT \div 2)

Range(s) == {s[i] : i \in 1..Len(s)}

Min(a, b) == IF a < b THEN a ELSE b

\* The direct reverse of a heading.
Reverse(d) ==
    CASE d = "Up" -> "Down"
      [] d = "Down" -> "Up"
      [] d = "Left" -> "Right"
      [] d = "Right" -> "Left"

\* Move with the vertical axis taken as pointing up.
Move_y_up(p, d) ==
    CASE d = "Up" -> Pos(p.x, p.y + 1)
      [] d = "Left" -> Pos(p.x - 1, p.y)
      [] d = "Down" -> Pos(p.x, p.y - 1)
      [] d = "Right" -> Pos(p.x + 1, p.y)

\* The head one cell further along heading d (the match in update).
Move(p, d) ==
    CASE d = "Up" -> Pos(p.x, p.y - 1)
      [] d = "Left" -> Pos(p.x - 1, p.y)
      [] d = "Down" -> Pos(p.x, p.y + 1)
      [] d = "Right" -> Pos(p.x + 1, p.y)

\* InGrid with the lower bounds tested by <= instead of <.
InGrid_off_by_one(p) ==
    ~(p.x <= 0 \/ p.x >= GRID_WIDTH \/ p.y <= 0 \/ p.y >= GRID_HEIGHT)

\* The negation of the out-of-bounds test of update.
InGrid(p) ==
    ~(p.x < 0 \/ p.x >= GRID_WIDTH \/ p.y < 0 \/ p.y >= GRID_HEIGHT)

\* pop_front left out: the tail is never dropped.
pop_front_skipped(q) == q

\* VecDeque::pop_front: drops the oldest segment, nothing on an empty queue.
pop_front(q) == IF Len(q) = 0 THEN q ELSE Tail(q)

\* Every cell new_fruit can return: gen_range excludes its upper end.
new_fruit == {Pos(px, py) : px \in 0..(GRID_WIDTH - 2), py \in 0..(GRID_HEIGHT - 2)}

\* The draws of new_fruit that are explored.
FruitDraws ==
    {p \in new_fruit : /\ p.x >= Center.x - FruitSpan /\ p.x <= Center.x
                       /\ p.y >= Center.y - FruitSpan /\ p.y <= Center.y}

\* The rejection loop `while bodyparts.contains(fruit) { fruit = new_fruit() }`
\* ends with a draw that is not in body.
FruitOffBody(body) == {f \in FruitDraws : f \notin Range(body)}

\* handle_input with each test made against the buffered heading instead
\* of the committed one.
handle_input_buffered(dir, nd, keys) ==
    LET n1 == IF "W" \in keys /\ nd # "Down" THEN "Up" ELSE nd
        n2 == IF "A" \in keys /\ n1 # "Right" THEN "Left" ELSE n1
        n3 == IF "S" \in keys /\ n2 # "Up" THEN "Down" ELSE n2
        n4 == IF "D" \in keys /\ n3 # "Left" THEN "Right" ELSE n3
    IN  n4

\* handle_input: four tests in the order W, A, S, D, each against the
\* committed direction; a later key overwrites an earlier one.
handle_input(dir, nd, keys) ==
    LET n1 == IF "W" \in keys /\ dir # "Down" THEN "Up" ELSE nd
        n2 == IF "A" \in keys /\ dir # "Right" THEN "Left" ELSE n1
        n3 == IF "S" \in keys /\ dir # "Up" THEN "Down" ELSE n2
        n4 == IF "D" \in keys /\ dir # "Left" THEN "Right" ELSE n3
    IN  n4

\* ------------------------------------------------------------ buttons
Button(px, py, w, h) == [pos |-> Pos(px, py), width |-> w, height |-> h]

\* Menu's start button and GameOver's restart button have the same place.
start_button == Button(250, 100, 300, 100)
restart_button == Button(250, 100, 300, 100)
exit_button == Button(250, 300, 300, 100)

is_mouse_over_button(b, m) ==
    /\ m.x > b.pos.x
    /\ m.x < b.pos.x + b.width
    /\ m.y > b.pos.y
    /\ m.y < b.pos.y + b.height

\* Pointer positions explored: on two corners of the start/restart button
\* (off it, the comparisons are strict), just inside those corners, and
\* inside the exit button.
MousePoints ==
    {Pos(250, 100), Pos(251, 101), Pos(549, 199), Pos(550, 200), Pos(400, 350)}

\* Menu::update: "Game", "Exit" (the process exits inside on_click) or "None".
MenuUpdate(m, down) ==
    LET active_button ==
            IF is_mouse_over_button(start_button, m) THEN "Game"
            ELSE IF is_mouse_over_button(exit_button, m) THEN "Exit"
            ELSE "None"
    IN  IF down THEN active_button ELSE "None"

\* GameOver::update with the restart button leading back to the menu.
GameOverUpdate_to_menu(m, down) ==
    LET active_button ==
            IF is_mouse_over_button(restart_button, m) THEN "_StartMenu"
            ELSE IF is_mouse_over_button(exit_button, m) THEN "Exit"
            ELSE "None"
    IN  IF down THEN active_button ELSE "None"

\* GameOver::update: the same with the restart button.
GameOverUpdate(m, down) ==
    LET active_button ==
            IF is_mouse_over_button(restart_button, m) THEN "Game"
            ELSE IF is_mouse_over_button(exit_button, m) THEN "Exit"
            ELSE "None"
    IN  IF down THEN active_button ELSE "None"

\* SceneIndex with GameOver mapped to the index of GameScene.
SceneIndex_game_over_is_game(s) ==
    CASE s = "_StartMenu" -> 0
      [] s = "Game" -> 1
      [] s = "GameOver" -> 1

\* The index Game::update passes to set_scene for a SwapScene value.
SceneIndex(s) ==
    CASE s = "_StartMenu" -> 0
      [] s = "Game" -> 1
      [] s = "GameOver" -> 2

\* ------------------------------------------------------------ time
FrameTimes == {FrameMs, TICK_SPEED_MS}

\* last_tick.elapsed().as_millis() after dt more milliseconds.  Only the
\* comparison with TICK_SPEED_MS reads it, so it is kept saturated there.
Elapsed(age, dt) == Min(age + dt, TICK_SPEED_MS)

\* ------------------------------------------------------------ RefCell
\* The borrow flag of a scene's RefCell: 0 unborrowed, -1 mutably borrowed,
\* n > 0 shared n times.
try_borrow_mut(b, i) == b[i] = 0

try_borrow(b, i) == b[i] >= 0

borrow_mut(b, i) == [b EXCEPT ![i] = -1]

\* A RefMut that is never dropped.
drop_ref_mut_leaked(b, i) == b

\* The drop of the RefMut at the end of the closure that used it.
drop_ref_mut(b, i) == [b EXCEPT ![i] = 0]

\* Game::draw on the active scene: the panic it ends in, or "none".
\* GameScene::draw computes bodyparts.len()-1 in usize.
GameDraw(b, scene, body) ==
    IF ~try_borrow(b, scene) THEN "already mutably borrowed"
    ELSE IF scene = 1 /\ Len(body) = 0 THEN "attempt to subtract with overflow"
    ELSE "none"

\* ------------------------------------------------------------ state
VARIABLES
    active_scene,    \* Game.active_scene: index into Game.scenes (0 Menu, 1 GameScene, 2 GameOver)
    running,         \* FALSE once exit(0) was called
    swap,            \* what the active scene's update returned in the last frame
    direction,       \* GameScene.direction
    next_direction,  \* GameScene.next_direction
    bodyparts,       \* GameScene.bodyparts, tail first
    head_position,   \* GameScene.head_position
    fruit_location,  \* GameScene.fruit_location
    last_tick,       \* milliseconds since GameScene.last_tick, saturated at TICK_SPEED_MS
    mouse_down,      \* the left pointer button when is_mouse_button_down last read it
    borrow_flag,     \* the borrow flag of the RefCell of each scene
    panicked,        \* the message of the panic that ended the process, or "none"
    ticks,           \* ticks of update since the last reset (or new)
    since_move,      \* milliseconds since the last head movement, saturated at TICK_SPEED_MS
    move_gap,        \* milliseconds between the last two head movements, saturated
    run_start,       \* head position when the committed heading last changed
    run_len          \* ticks made since then

vars == <<active_scene, running, swap, direction, next_direction, bodyparts,
          head_position, fruit_location, last_tick, mouse_down, borrow_flag,
          panicked, ticks, since_move, move_gap, run_start, run_len>>

gamescene == <<direction, next_direction, bodyparts, head_position, fruit_location>>

TypeOK ==
    /\ active_scene \in 0..2
    /\ running \in BOOLEAN
    /\ swap \in {"None", "Game", "GameOver", "_StartMenu"}
    /\ direction \in Directions
    /\ next_direction \in Directions
    /\ bodyparts \in Seq([x : Int, y : Int])
    /\ head_position \in [x : Int, y : Int]
    /\ fruit_location \in new_fruit
    /\ last_tick \in 0..TICK_SPEED_MS
    /\ mouse_down \in BOOLEAN
    /\ borrow_flag \in [0..2 -> Int]

\* ------------------------------------------------------------ operations

\* GameScene::new, Game::new and the add_scene and set_scene(0) of main.
Init ==
    /\ active_scene = 0
    /\ running = TRUE
    /\ swap = "None"
    /\ direction = "Up"
    /\ next_direction = "Up"
    /\ bodyparts = <<Center>>
    /\ head_position = Center
    /\ fruit_location \in FruitOffBody(<<Center>>)
    /\ last_tick = 0
    /\ mouse_down = FALSE
    /\ borrow_flag = [i \in 0..2 |-> 0]
    /\ panicked = "none"
    /\ ticks = 0
    /\ since_move = TICK_SPEED_MS
    /\ move_gap = TICK_SPEED_MS
    /\ run_start = Center
    /\ run_len = 0

\* reset without the assignments of direction and next_direction.
reset_keeps_heading ==
    /\ bodyparts' = <<Center>>
    /\ head_position' = Center
    /\ fruit_location' \in FruitOffBody(<<Center>>)
    /\ UNCHANGED <<direction, next_direction>>
    /\ ticks' = 0
    /\ run_start' = Center
    /\ run_len' = 0

\* reset without the assignment of head_position.
reset_keeps_head ==
    /\ bodyparts' = <<Center>>
    /\ UNCHANGED head_position
    /\ fruit_location' \in FruitOffBody(<<Center>>)
    /\ direction' = "Up"
    /\ next_direction' = "Up"
    /\ ticks' = 0
    /\ run_start' = Center
    /\ run_len' = 0

\* GameScene::reset.  last_tick is not assigned.
reset ==
    /\ bodyparts' = <<Center>>
    /\ head_position' = Center
    /\ fruit_location' \in FruitOffBody(<<Center>>)
    /\ direction' = "Up"
    /\ next_direction' = "Up"
    /\ ticks' = 0
    /\ run_start' = Center
    /\ run_len' = 0

\* The borrow flags once the RefMut taken for the active scene's update has
\* been dropped, at the end of the closure of Game::update.
AfterUpdate == drop_ref_mut(borrow_mut(borrow_flag, active_scene), active_scene)

\* A panic: the process ends where it is.
Panic(msg) ==
    /\ panicked' = msg
    /\ UNCHANGED <<active_scene, running, swap, gamescene, last_tick, mouse_down,
                   borrow_flag, ticks, since_move, move_gap, run_start, run_len>>

\* The scene switch of Game::update for the value s returned by the update
\* of Menu or GameOver; reset acts on the scene that set_scene made active.
\* Game::draw follows.
SwitchScene(s) ==
    /\ swap' = s
    /\ active_scene' = IF s = "None" THEN active_scene ELSE SceneIndex(s)
    /\ IF s = "Game"
          THEN IF try_borrow_mut(AfterUpdate, SceneIndex(s))
                  THEN /\ IF SceneIndex(s) = 1
                             THEN reset
                             ELSE UNCHANGED <<gamescene, ticks, run_start, run_len>>
                       /\ borrow_flag' =
                             drop_ref_mut(borrow_mut(AfterUpdate, SceneIndex(s)), SceneIndex(s))
                       /\ panicked' = GameDraw(borrow_flag', active_scene', bodyparts')
                  ELSE /\ UNCHANGED <<gamescene, ticks, run_start, run_len>>
                       /\ borrow_flag' = AfterUpdate
                       /\ panicked' = "Failed to borrow mut"
          ELSE /\ UNCHANGED <<gamescene, ticks, run_start, run_len>>
               /\ borrow_flag' = AfterUpdate
               /\ panicked' = GameDraw(borrow_flag', active_scene', bodyparts')

\* A frame of Menu or GameOver that also lets the GameScene poll the keys
\* (here with A down), as if every scene were updated in every frame.
ButtonFrame_updates_game(result, down, dt) ==
    IF ~try_borrow_mut(borrow_flag, active_scene)
       THEN Panic("Fatal Error: Failed to borrow scene")
       ELSE /\ mouse_down' = down
            /\ last_tick' = Elapsed(last_tick, dt)
            /\ since_move' = Elapsed(since_move, dt)
            /\ UNCHANGED move_gap
            /\ IF result = "Game"
                  THEN /\ UNCHANGED running
                       /\ SwitchScene(result)
                  ELSE /\ running' = (result # "Exit")
                       /\ next_direction' = handle_input(direction, next_direction, {"A"})
                       /\ UNCHANGED <<active_scene, swap, direction, bodyparts, head_position,
                                      fruit_location, ticks, run_start, run_len,
                                      borrow_flag, panicked>>

\* A frame of Menu or GameOver: time passes, the button is polled.
ButtonFrame(result, down, dt) ==
    IF ~try_borrow_mut(borrow_flag, active_scene)
       THEN Panic("Fatal Error: Failed to borrow scene")
       ELSE /\ mouse_down' = down
            /\ last_tick' = Elapsed(last_tick, dt)
            /\ since_move' = Elapsed(since_move, dt)
            /\ UNCHANGED move_gap
            /\ IF result = "Exit"
                  THEN /\ running' = FALSE
                       /\ UNCHANGED <<active_scene, swap, gamescene, ticks, run_start,
                                      run_len, borrow_flag, panicked>>
                  ELSE /\ UNCHANGED running
                       /\ SwitchScene(result)

\* Game::update and Game::draw with Menu active.
MenuFrame ==
    /\ running /\ panicked = "none"
    /\ active_scene = 0
    /\ \E m \in MousePoints, down \in BOOLEAN, dt \in FrameTimes :
          ButtonFrame(MenuUpdate(m, down), down, dt)

\* Game::update and Game::draw with GameOver active.
GameOverFrame ==
    /\ running /\ panicked = "none"
    /\ active_scene = 2
    /\ \E m \in MousePoints, down \in BOOLEAN, dt \in FrameTimes :
          ButtonFrame(GameOverUpdate(m, down), down, dt)

\* The end of a tick of GameScene::update that returns GameOver: the early
\* return skips the assignment of last_tick.
TickGameOver(nd, head, body, fruit, elapsed) ==
    /\ direction' = nd
    /\ next_direction' = nd
    /\ head_position' = head
    /\ bodyparts' = body
    /\ fruit_location' = fruit
    /\ last_tick' = elapsed
    /\ swap' = "GameOver"
    /\ active_scene' = SceneIndex("GameOver")

\* The new head pushed before the self-collision loop runs.
TickFinish_push_first(nd, head, body, fruit, elapsed) ==
    TickGameOver(nd, head, Append(body, head), fruit, elapsed)

\* The tick without the self-collision loop.
TickFinish_no_self_check(nd, head, body, fruit, elapsed) ==
    /\ direction' = nd
    /\ next_direction' = nd
    /\ head_position' = head
    /\ bodyparts' = Append(body, head)
    /\ fruit_location' = fruit
    /\ last_tick' = 0
    /\ swap' = "None"
    /\ UNCHANGED active_scene

\* The self-collision test and the push of the new head.
TickFinish(nd, head, body, fruit, elapsed) ==
    IF head \in Range(body)
       THEN TickGameOver(nd, head, body, fruit, elapsed)
       ELSE /\ direction' = nd
            /\ next_direction' = nd
            /\ head_position' = head
            /\ bodyparts' = Append(body, head)
            /\ fruit_location' = fruit
            /\ last_tick' = 0
            /\ swap' = "None"
            /\ UNCHANGED active_scene

\* The tick of GameScene::update, with the heading nd to commit; accepted
\* holds the draws of new_fruit that the rejection loop may end with.
Tick(nd, elapsed, accepted) ==
    LET head == Move(head_position, nd) IN
    /\ ticks' = ticks + 1
    /\ since_move' = 0
    /\ move_gap' = elapsed
    /\ run_start' = IF nd = direction THEN run_start ELSE head_position
    /\ run_len' = IF nd = direction THEN run_len + 1 ELSE 1
    /\ IF ~InGrid(head)
          THEN TickGameOver(nd, head, bodyparts, fruit_location, elapsed)
          ELSE IF head = fruit_location
                  THEN \E f \in accepted :
                          TickFinish(nd, head, bodyparts, f, elapsed)
                  ELSE TickFinish(nd, head, pop_front(bodyparts), fruit_location, elapsed)

\* A frame of GameScene::update that also commits the polled heading,
\* although no tick is due.
Poll_commits(nd, elapsed, dt) ==
    /\ next_direction' = nd
    /\ direction' = nd
    /\ last_tick' = elapsed
    /\ since_move' = Elapsed(since_move, dt)
    /\ swap' = "None"
    /\ UNCHANGED <<active_scene, bodyparts, head_position,
                   fruit_location, ticks, move_gap, run_start, run_len>>

\* A frame of GameScene::update in which no tick is due: handle_input only.
Poll(nd, elapsed, dt) ==
    /\ next_direction' = nd
    /\ last_tick' = elapsed
    /\ since_move' = Elapsed(since_move, dt)
    /\ swap' = "None"
    /\ UNCHANGED <<active_scene, direction, bodyparts, head_position,
                   fruit_location, ticks, move_gap, run_start, run_len>>

\* The key sets a frame may see, t ticks into a game that is steered for
\* the first steer ticks.
KeyInputs(t, steer) == IF t < steer THEN SUBSET Keys ELSE {{}}

\* Game::update and Game::draw with GameScene active, for the key sets, the
\* frame times and the accepted fruit draws given.
GameSceneInputs(keysets, dts, accepted) ==
    /\ running /\ panicked = "none"
    /\ active_scene = 1
    /\ IF ~try_borrow_mut(borrow_flag, active_scene)
          THEN Panic("Fatal Error: Failed to borrow scene")
          ELSE /\ \E keys \in keysets, dt \in dts :
                     LET nd == handle_input(direction, next_direction, keys)
                         elapsed == Elapsed(last_tick, dt)
                     IN  IF elapsed >= TICK_SPEED_MS
                            THEN Tick(nd, Elapsed(since_move, dt), accepted)
                            ELSE Poll(nd, elapsed, dt)
               /\ UNCHANGED <<running, mouse_down>>
               /\ borrow_flag' = AfterUpdate
               /\ panicked' = GameDraw(borrow_flag', active_scene', bodyparts')

GameSceneFrame(steer) ==
    GameSceneInputs(KeyInputs(ticks, steer), FrameTimes, FruitOffBody(bodyparts))

PlayFrame == GameSceneFrame(SteerTicks)

Next == MenuFrame \/ PlayFrame \/ GameOverFrame

Spec == Init /\ [][Next]_vars

\* A run in which no key is ever down.
PlayFrameNoInput == GameSceneFrame(0)

NextNoInput == MenuFrame \/ PlayFrameNoInput \/ GameOverFrame

SpecNoInput == Init /\ [][NextNoInput]_vars

\* A player who steers the snake along a closed tour of the grid: up
\* column 0, right along the even rows, left along the odd rows back to
\* column 1, down at the end of each row, and home along row 19.
AutoHeading(p) ==
    IF p.x = 0 THEN (IF p.y > 0 THEN "Up" ELSE "Right")
    ELSE IF p.y % 2 = 0 THEN (IF p.x < GRID_WIDTH - 1 THEN "Right" ELSE "Down")
    ELSE IF p.x > 1 THEN "Left"
    ELSE IF p.y < GRID_HEIGHT - 1 THEN "Down" ELSE "Left"

\* The key that player holds down with the head at p.
AutoKeys(p) ==
    LET h == AutoHeading(p)
    IN  {IF h = "Up" THEN "W" ELSE IF h = "Left" THEN "A" ELSE IF h = "Down" THEN "S" ELSE "D"}

RECURSIVE FirstFreeAhead(_, _, _)
\* The first cell after c on the tour, among the next n, that new_fruit can
\* return and that is not in occupied; no cell when there is none.
FirstFreeAhead(c, n, occupied) ==
    IF n = 0 THEN {}
    ELSE LET q == Move(c, AutoHeading(c))
         IN  IF q \in new_fruit /\ q \notin occupied
                THEN {q}
                ELSE FirstFreeAhead(q, n - 1, occupied)

\* One outcome of the random draws of the rejection loop: the accepted cell
\* that is nearest ahead of the moved head on the tour.
AutoDraw(head, body) == FirstFreeAhead(head, GRID_WIDTH * GRID_HEIGHT, Range(body))

\* A frame of GameScene played by that player, one tick a frame.
AutopilotFrame ==
    GameSceneInputs({AutoKeys(head_position)}, {TICK_SPEED_MS},
                    AutoDraw(Move(head_position, AutoHeading(head_position)), bodyparts))

NextAutopilot == MenuFrame \/ AutopilotFrame

SpecAutopilot == Init /\ [][NextAutopilot]_vars

\* ------------------------------------------------------------ claims

\* C1: at rest (after new, after reset and after every non-terminal tick,
\* the tick that eats a fruit included) the fruit is on no body segment.
C1_FruitOffBody ==
    active_scene \in {0, 1} => fruit_location \notin Range(bodyparts)

\* C2: a frame that leaves GameScene active keeps the length of bodyparts,
\* unless it is a tick whose moved head is on the fruit: then the length
\* grows by exactly one.
C2_Step ==
    (active_scene = 1 /\ active_scene' = 1) =>
        Len(bodyparts') = Len(bodyparts)
            + (IF ticks' = ticks + 1 /\ head_position' = fruit_location THEN 1 ELSE 0)

C2_Length == [][C2_Step]_vars

C2_Grown ==
    /\ active_scene = 1
    /\ since_move = 0
    /\ ticks = 4
    /\ Len(bodyparts) = 3

\* C3: next_direction is never the reverse of direction, and the heading a
\* tick commits is never the reverse of the heading committed before it.
C3_Buffered == next_direction # Reverse(direction)

C3_NoReverse ==
    /\ C3_Buffered
    /\ [][C3_Buffered' /\ (ticks' = ticks + 1 => direction' # Reverse(direction))]_vars

C3_Turning ==
    /\ active_scene = 1
    /\ ticks >= 1
    /\ direction = "Left"
    /\ next_direction = "Down"
    /\ last_tick = FrameMs

\* C4: the tick that moves the head out of the grid returns GameOver and
\* makes GameOver the active scene, and while the head stays out of the
\* grid (until a restart resets it) no frame returns GameOver again.
C4_Step ==
    /\ (InGrid(head_position) /\ ~InGrid(head_position')) =>
            (swap' = "GameOver" /\ active_scene = 1 /\ active_scene' = 2)
    /\ (~InGrid(head_position) /\ ~InGrid(head_position')) =>
            /\ running' => swap' # "GameOver"
            /\ ticks' = ticks
            /\ head_position' = head_position
    /\ ~InGrid(head_position) => active_scene = 2

C4_WallOnce == [][C4_Step]_vars

C4_AfterWall ==
    /\ active_scene = 2
    /\ ~InGrid(head_position)
    /\ swap = "None"

\* C5: the active scene starts as Menu and changes only Menu -> Playing
\* (button pressed), Playing -> GameOver (a tick that hits a wall or the
\* body), GameOver -> Playing (button pressed); the process ends only by a
\* button pressed in Menu or GameOver.
C5_Step ==
    /\ active_scene' # active_scene =>
          \/ active_scene = 0 /\ active_scene' = 1 /\ swap' = "Game" /\ mouse_down'
          \/ active_scene = 2 /\ active_scene' = 1 /\ swap' = "Game" /\ mouse_down'
          \/ /\ active_scene = 1 /\ active_scene' = 2 /\ swap' = "GameOver"
             /\ ticks' = ticks + 1
             /\ ~InGrid(head_position') \/ head_position' \in Range(bodyparts')
    /\ running' # running =>
          /\ running /\ active_scene \in {0, 2} /\ mouse_down'
          /\ active_scene' = active_scene

C5_SceneMachine ==
    /\ active_scene = 0 /\ running = TRUE
    /\ [][C5_Step]_vars

C5_ExitAfterSelfCollision ==
    /\ ~running
    /\ active_scene = 2
    /\ InGrid(head_position)
    /\ head_position \in Range(bodyparts)

\* C6: every step that makes Playing the active scene leaves the GameScene
\* reset: one segment at (10,10), head at (10,10), heading and buffered
\* heading Up, fruit not at (10,10).
C6_Step ==
    (active_scene # 1 /\ active_scene' = 1) =>
        /\ bodyparts' = <<Pos(10, 10)>>
        /\ head_position' = Pos(10, 10)
        /\ direction' = "Up" /\ next_direction' = "Up"
        /\ fruit_location' # Pos(10, 10)

C6_EntryResets == [][C6_Step]_vars

C6_Restarted ==
    /\ active_scene = 1
    /\ swap = "Game"
    /\ since_move < TICK_SPEED_MS
    /\ bodyparts = <<Pos(10, 10)>>

\* C7: in a run with no key ever down, the ticks 1..10 after a reset leave
\* GameScene active with the head at (10, 10 - ticks), and GameOver is
\* returned at tick 11, with head.y = -1, and at no other tick.
C7_WallAtTick11 ==
    /\ active_scene = 1 => (ticks <= 10 /\ head_position = Pos(10, 10 - ticks))
    /\ active_scene = 2 => (ticks = 11 /\ head_position = Pos(10, -1))
    /\ swap = "GameOver" => ticks = 11

C7_Tick11 ==
    /\ active_scene = 2
    /\ swap = "GameOver"
    /\ ticks = 11
    /\ head_position.y = -1

\* C8: while GameScene is active the head is the cell where the committed
\* heading last changed, offset by one unit vector of the heading for every
\* tick made since (Up = y-1, Down = y+1, Left = x-1, Right = x+1); a frame
\* without a tick does not move the head.
C8_Offset(p, h, n) ==
    CASE h = "Up" -> Pos(p.x, p.y - n)
      [] h = "Down" -> Pos(p.x, p.y + n)
      [] h = "Left" -> Pos(p.x - n, p.y)
      [] h = "Right" -> Pos(p.x + n, p.y)

C8_Run ==
    active_scene = 1 => head_position = C8_Offset(run_start, direction, run_len)

C8_Step ==
    /\ C8_Run'
    /\ (active_scene = 1 /\ ticks' = ticks) => head_position' = head_position

C8_HeadOffset ==
    /\ C8_Run
    /\ [][C8_Step]_vars

C8_LongRun ==
    /\ active_scene = 1
    /\ direction = "Left"
    /\ run_start = Pos(10, 8)
    /\ run_len = 9

\* C9: in Menu and GameOver, a frame that follows a frame of the same scene
\* in which the left button was already down fires no action: no scene
\* switch and no exit.
C9_Step ==
    (active_scene \in {0, 2} /\ swap = "None" /\ mouse_down) =>
        (active_scene' = active_scene /\ running' = running)

C9_EdgeTriggered == [][C9_Step]_vars

\* C10: any two consecutive head movements are at least TICK_SPEED_MS
\* apart, a terminal tick and the first tick after the restart included.
C10_MoveGap == move_gap >= TICK_SPEED_MS

\* ------------------------------------------------------------ fruit placement
\* Every cell of the grid.
C11_Grid == {Pos(px, py) : px \in 0..(GRID_WIDTH - 1), py \in 0..(GRID_HEIGHT - 1)}

\* The cells the loop "while bodyparts.contains(&fruit_location)" around
\* new_fruit can end with, for a snake that occupies body.
new_fruit_accepted(body) ==
    LET occupied == Range(body)
    IN  {f \in new_fruit : f \notin occupied}

\* C11: a new fruit is drawn from all the free cells of the grid: every
\* cell of the 20 x 20 grid that the body does not occupy can be drawn,
\* column 19 and row 19 included, and no other cell can.
C11_AllFreeCells ==
    new_fruit_accepted(bodyparts) = {c \in C11_Grid : c \notin Range(bodyparts)}

\* C12: a tick whose moved head is inside the grid ends the game exactly
\* when the moved head equals a segment that remains after the fruit or
\* tail step (the whole body when the fruit is eaten, the body without its
\* tail otherwise); on such a tick the new head is not appended, on any
\* other it is.
C12_Step ==
    (active_scene = 1 /\ ticks' = ticks + 1 /\ InGrid(head_position')) =>
        LET remaining == IF head_position' = fruit_location
                            THEN bodyparts
                            ELSE SubSeq(bodyparts, 2, Len(bodyparts))
        IN  /\ (active_scene' = 2) <=> (head_position' \in Range(remaining))
            /\ (active_scene' = 2) => (bodyparts' = remaining)
            /\ (active_scene' # 2) => (bodyparts' = Append(remaining, head_position'))

C12_SelfCollision == [][C12_Step]_vars

C12_HeadOnBody ==
    /\ active_scene = 2
    /\ swap = "GameOver"
    /\ InGrid(head_position)
    /\ head_position \in Range(bodyparts)
    /\ bodyparts[Len(bodyparts)] # head_position

\* C13: while Menu or GameScene is active (after new, reset and every tick
\* that did not end the game) no two elements of bodyparts are equal.
C13_NoDuplicates ==
    active_scene \in {0, 1} =>
        \A i, j \in 1..Len(bodyparts) : (bodyparts[i] = bodyparts[j]) => (i = j)

C13_HeadInVacatedTail ==
    /\ active_scene = 1
    /\ ticks = 4
    /\ Len(bodyparts) = 4
    /\ head_position = Center

\* C14: a frame of GameScene without a tick changes nothing of the
\* GameScene but next_direction, and polling the key state it saw once
\* more gives the same next_direction again.
C14_Step ==
    (active_scene = 1 /\ active_scene' = 1 /\ ticks' = ticks /\ panicked' = "none") =>
        /\ <<direction, bodyparts, head_position, fruit_location>>' =
              <<direction, bodyparts, head_position, fruit_location>>
        /\ \A keys \in SUBSET Keys :
              (next_direction' = handle_input(direction, next_direction, keys)) =>
                  (handle_input(direction', next_direction', keys) = next_direction')

C14_PollIdempotent == [][C14_Step]_vars

C14_PolledTwice ==
    /\ active_scene = 1
    /\ swap = "None"
    /\ last_tick = 2 * FrameMs
    /\ next_direction # direction

\* C15: no panic of Game::update or Game::draw is ever triggered: the
\* active scene is always set, and no scene is left borrowed between
\* frames, so that every borrow of a frame succeeds.
C15_NoPanic ==
    /\ panicked = "none"
    /\ active_scene \in 0..2
    /\ \A i \in 0..2 : borrow_flag[i] = 0

C15_ResetBorrowed ==
    /\ swap = "Game"
    /\ active_scene = 1
    /\ ticks = 0
    /\ borrow_flag[1] = 0
    /\ panicked = "none"

\* C16: the fruit respawn always terminates: in every state in which the
\* next tick can move the head onto the fruit, at least one cell that
\* new_fruit can return is not in bodyparts.
C16_RespawnTerminates ==
    (active_scene = 1 /\ running /\ panicked = "none") =>
        \A keys \in SUBSET Keys :
            (Move(head_position, handle_input(direction, next_direction, keys)) = fruit_location)
                => (\E f \in new_fruit_accepted(bodyparts) : f \in new_fruit)

\* C17: whenever GameScene is the active scene, bodyparts is not empty,
\* its last element is head_position, and head_position is inside the grid.
C17_DrawSafe ==
    active_scene = 1 =>
        /\ Len(bodyparts) >= 1
        /\ bodyparts[Len(bodyparts)] = head_position
        /\ InGrid(head_position)

C17_HeadAtTopRow ==
    /\ active_scene = 1
    /\ head_position.y = 0
    /\ Len(bodyparts) >= 2

\* C18: a frame of Menu or GameOver leaves the GameScene as it is, but for
\* the reset on the switch to GameScene, and makes no tick; a frame of
\* GameScene reads no button, exits nothing, and leaves GameScene active
\* unless its tick ends the game.
C18_Step ==
    /\ (active_scene \in {0, 2}) =>
          \/ gamescene' = gamescene /\ ticks' = ticks
          \/ /\ active_scene' = 1
             /\ swap' = "Game"
             /\ bodyparts' = <<Center>>
             /\ ticks' = 0
    /\ (active_scene = 1) =>
          /\ mouse_down' = mouse_down
          /\ running' = running
          /\ active_scene' \in {1, 2}
          /\ (active_scene' = 2) => (swap' = "GameOver" /\ ticks' = ticks + 1)

C18_OnlyActiveScene == [][C18_Step]_vars

C18_IdleGameOver ==
    /\ active_scene = 2
    /\ swap = "None"
    /\ mouse_down
    /\ last_tick = TICK_SPEED_MS
    /\ Len(bodyparts) >= 2

====
